---- MODULE Spec2Model ----
(***************************************************************************)
(* State-machine model of the App component in its two variants:           *)
(*   "App"  - src/App.tsx            (chat edit, history restore/delete)   *)
(*   "Part" - src/unnamed/part_000   (batch queue, constructPrompt)        *)
(* Every React state field is a variable.  An async handler is a task: the *)
(* values its closure captured at invocation plus the await it is parked   *)
(* on.  Code between two awaits runs as one step (the event loop runs a    *)
(* handler to its next suspension point; microtask continuations are not   *)
(* interleaved with user events).                                          *)
(***************************************************************************)
EXTENDS Integers, Sequences, FiniteSets, TLC

VARIABLES
    variant,            \* which source file is running
    selectedImage, resultImage, prompt, aspectRatio, quality, status, history,
    skinTexture, faceDetail, lighting, colorGrading,
    isAnimating, videoResult, activeTab, backgroundConfig,
    chatMessages,       \* App.tsx only ever writes it
    batchQueue, isBatchProcessing,   \* part_000 only
    tasks,              \* handler invocations: captured closure + position
    genCalls,           \* Generation Client calls, in issue order
    historyLoad,        \* the getHistory() promise started on mount
    idCounter,          \* Date.now()/Math.random() freshness of item ids
    savedPrompts, newPresetName,     \* App.tsx only
    presetSlot,         \* localStorage 'cinematic_ai_saved_prompts'
    presetsLoaded,      \* the mount effects of the saved prompts have run
    last                \* the operation that ran last, and its task

settingsVars == <<prompt, aspectRatio, quality, skinTexture, faceDetail,
                  lighting, colorGrading, backgroundConfig>>
viewVars == <<resultImage, videoResult, activeTab, isAnimating, chatMessages>>
batchVars == <<batchQueue, isBatchProcessing>>
storeVars == <<historyLoad>>
presetVars == <<savedPrompts, newPresetName, presetSlot, presetsLoaded>>
vars == <<variant, selectedImage, status, history, settingsVars, viewVars,
          batchVars, tasks, genCalls, storeVars, idCounter, presetVars, last>>

----------------------------------------------------------------------------
(* Bounds of the model *)

\* handler invocations that suspend on an external call, per behaviour
MaxTasks == 2
\* saved prompts in the list
MaxPresets == 3
\* the latest timestamp a saved prompt gets as its id
MaxPresetId == 4
\* images in one multi-selection
MaxBatch == 3

----------------------------------------------------------------------------
(* Values *)

Img(k, n) == [kind |-> k, n |-> n]
NULL == Img("null", 0)
SourceImage(n) == Img("source", n)
\* the image the Generation Client returns for its n-th call
GeneratedImage(n) == Img("generated", n)
\* the object URL the Animation Client returns for image img
VideoOf(img) == Img("video:" \o img.kind, img.n)

NoError == "null"
ErrorGeneric == "t.errorGeneric"
NoMessage == ""

SingleInputs == {SourceImage(1), NULL}
\* several files picked at once
BatchInputs == { [i \in 1..n |-> SourceImage(i)] : n \in 2..MaxBatch }
ChatInputs == { <<"make it warmer">> }
\* what a rejected promise carries: a message, or none
RejectionInputs == { "upstream rejected", NoMessage }
Outcomes == {"ok"} \cup RejectionInputs
\* handleBatchGenerate never reads the error it catches
BatchOutcomes == {"ok", "rejected"}


\* constants.ts tables: one phrase per key
LIGHTING_STYLES(l) == "LIGHTING_STYLES." \o l
COLOR_GRADING_STYLES(c) == "COLOR_GRADING_STYLES." \o c
QUALITY_MODIFIERS(q) == "QUALITY_MODIFIERS." \o q
BACKGROUND_PRESETS == { "studio", "city" }
PresetPrompt(id) == "BACKGROUND_PRESETS." \o id

\* an item a previous session left in the store (ids of this session are positive)
OldItem(n) ==
    [id |-> 0 - n, imageUrl |-> GeneratedImage(0 - n), prompt |-> <<"DEFAULT_PROMPT">>,
     aspectRatio |-> "1:1", skinTexture |-> TRUE, faceDetail |-> 50,
     lighting |-> "cinematic", colorGrading |-> "none"]
\* what the store holds when the component mounts
StoredInputs == { <<OldItem(1), OldItem(2)>> }
NoItem ==
    [id |-> 0, imageUrl |-> NULL, prompt |-> <<>>,
     aspectRatio |-> "1:1", skinTexture |-> TRUE, faceDetail |-> 50,
     lighting |-> "cinematic", colorGrading |-> "none"]

----------------------------------------------------------------------------
(* Sequence helpers *)

RECURSIVE FilterSeq(_, _)
\* Array.prototype.filter(item => item.id !== id)
FilterSeq(s, id) ==
    IF s = <<>> THEN <<>>
    ELSE IF Head(s).id = id THEN FilterSeq(Tail(s), id)
         ELSE <<Head(s)>> \o FilterSeq(Tail(s), id)

Indices(s) == 1..Len(s)
IdsOf(s) == { s[i].id : i \in Indices(s) }

----------------------------------------------------------------------------
(* The saved-prompt slot of localStorage.  A JSON text is the array of its *)
(* entries, each entry the values of id, name and text in key order.       *)

\* localStorage.getItem returns null for a key that was never written
NoEntry == [kind |-> "absent", entries |-> <<>>]
\* a text that JSON.parse rejects
Garbage == [kind |-> "garbage", entries |-> <<>>]
\* JSON.stringify(savedPrompts), App.tsx line 102
Stringify(list) ==
    [kind |-> "json",
     entries |-> [i \in Indices(list) |-> <<list[i].id, list[i].name, list[i].text>>]]
\* JSON.parse(saved), App.tsx line 86
ParseOk(saved) == saved.kind = "json"
Parse(saved) ==
    [i \in Indices(saved.entries) |->
        [id |-> saved.entries[i][1], name |-> saved.entries[i][2],
         text |-> saved.entries[i][3]]]

----------------------------------------------------------------------------
(* Prompt composition.  A prompt string is the sequence of its             *)
(* comma-separated segments; `+= ", x, y"` appends the segments x and y.   *)

\* App.tsx lines 193-195
SkinTexturePartApp(skin) ==
    IF skin
    THEN <<"hyper-realistic skin texture", "subtle pores",
           "natural imperfections", "authentic skin details">>
    ELSE <<>>

\* App.tsx lines 198-204
FaceDetailPartApp(detail) ==
    IF detail > 75
    THEN <<"ultra-detailed facial features", "sharp focus on eyes and lips",
           "micro-details">>
    ELSE IF detail > 50
    THEN <<"detailed facial features", "clear focus">>
    ELSE IF detail < 25
    THEN <<"soft focus", "smooth features">>
    ELSE <<>>

\* part_000 line 115
SkinTexturePartPart(skin) ==
    IF skin THEN <<"high fidelity texture", "professional retouching">> ELSE <<>>

\* part_000 line 116
FaceDetailPartPart(detail) ==
    IF detail > 75 THEN <<"sharp focus", "high definition details">> ELSE <<>>

\* a color-grading phrase whatever the style, 'none' included
ColorGradingPartAlways(grading) == <<COLOR_GRADING_STYLES(grading)>>

\* App.tsx lines 210-212, part_000 line 118
ColorGradingPart(grading) ==
    IF grading # "none" THEN <<COLOR_GRADING_STYLES(grading)>> ELSE <<>>

\* App.tsx lines 218-225, part_000 lines 120-125
BackgroundPart(bg) ==
    IF bg.type = "preset" /\ bg.value # "default"
    THEN IF bg.value \in BACKGROUND_PRESETS
         THEN <<PresetPrompt(bg.value)>> ELSE <<>>
    ELSE IF bg.type = "custom_color"
    THEN <<"solid " \o bg.value \o " color background">>
    ELSE <<>>

\* the quality modifier ahead of the lighting phrase
JoinPartsQualityFirst(p, skin, detail, light, grading, q, bg) ==
    p \o skin \o detail \o q \o light \o grading \o bg

\* the order of the `finalPrompt +=` statements, App.tsx lines 190-225 and
\* part_000 lines 113-125
JoinParts(p, skin, detail, light, grading, q, bg) ==
    p \o skin \o detail \o light \o grading \o q \o bg

\* App.tsx handleGenerate, lines 190-225
ComposeApp(p, skin, detail, light, grading, q, bg) ==
    JoinParts(p, SkinTexturePartApp(skin), FaceDetailPartApp(detail),
              <<LIGHTING_STYLES(light)>>, ColorGradingPart(grading),
              <<QUALITY_MODIFIERS(q)>>, BackgroundPart(bg))

\* part_000 constructPrompt, lines 112-127
constructPrompt(p, skin, detail, light, grading, q, bg) ==
    JoinParts(p, SkinTexturePartPart(skin), FaceDetailPartPart(detail),
              <<LIGHTING_STYLES(light)>>, ColorGradingPart(grading),
              <<QUALITY_MODIFIERS(q)>>, BackgroundPart(bg))

\* the chat text run through the composition of handleGenerate
ComposeChatEditFull(text, q, light) ==
    ComposeApp(text, skinTexture, faceDetail, light, colorGrading, q,
               backgroundConfig)

\* App.tsx handleChatEdit, lines 276-278
ComposeChatEdit(text, q, light) ==
    text \o <<QUALITY_MODIFIERS(q)>> \o <<LIGHTING_STYLES(light)>>

----------------------------------------------------------------------------
(* Components whose source is outside src/: what they do with their props  *)

\* components/Button: a button with isLoading or disabled set takes no click
ButtonEnabled(isLoading, disabled) == ~isLoading /\ ~disabled
\* components/ChatInterface: no message is sent while isLoading or disabled
ChatEnabled(isLoading, disabled) == ~isLoading /\ ~disabled

\* services/storageService getHistory(): the stored items, most recent first
DbList(d) == d

----------------------------------------------------------------------------
(* Tasks and calls *)

Snap == [skinTexture |-> skinTexture, faceDetail |-> faceDetail,
         lighting |-> lighting, colorGrading |-> colorGrading]

NewTask(kind, pc, image, p, ar, queue, arg) ==
    [kind |-> kind, pc |-> pc, image |-> image, prompt |-> p, ar |-> ar,
     snap |-> Snap, queue |-> queue, i |-> 0, arg |-> arg, item |-> NoItem]

NewCall(t, image, p, ar) ==
    [task |-> t, image |-> image, prompt |-> p, ar |-> ar, state |-> "pending",
     message |-> NoMessage]

Idle == [isLoading |-> FALSE, error |-> NoError]
Loading == [isLoading |-> TRUE, error |-> NoError]
\* error.message || fallback
MessageOr(m, fallback) == IF m = NoMessage THEN fallback ELSE m

CanSpawn == Len(tasks) < MaxTasks
Mark(op, t) == last' = [op |-> op, task |-> t]

Pending(k) == k \in Indices(genCalls) /\ genCalls[k].state = "pending"
Outstanding == { k \in Indices(genCalls) : genCalls[k].state = "pending" }
\* call k resolved, or rejected with an error whose message is `outcome`
Settled(k, outcome) ==
    IF outcome = "ok" THEN [genCalls EXCEPT ![k].state = "ok"]
    ELSE [genCalls EXCEPT ![k].state = "failed", ![k].message = outcome]

\* addToHistory handed the prompt field instead of the composed finalPrompt
NewItemBasePrompt(image, p, ar, snap) ==
    [id |-> idCounter + 1, imageUrl |-> image, prompt |-> prompt, aspectRatio |-> ar,
     skinTexture |-> snap.skinTexture, faceDetail |-> snap.faceDetail,
     lighting |-> snap.lighting, colorGrading |-> snap.colorGrading]

\* addToHistory: the item built from the arguments and the captured settings
\* the item records the settings of the moment it is created
NewItemCurrentSettings(image, p, ar, snap) ==
    [id |-> idCounter + 1, imageUrl |-> image, prompt |-> p, aspectRatio |-> ar,
     skinTexture |-> skinTexture, faceDetail |-> faceDetail,
     lighting |-> lighting, colorGrading |-> colorGrading]

NewItem(image, p, ar, snap) ==
    [id |-> idCounter + 1, imageUrl |-> image, prompt |-> p, aspectRatio |-> ar,
     skinTexture |-> snap.skinTexture, faceDetail |-> snap.faceDetail,
     lighting |-> snap.lighting, colorGrading |-> snap.colorGrading]

\* setHistory(prev => [newItem, ...prev])
Prepend(item, h) == <<item>> \o h

----------------------------------------------------------------------------
(* Initial state: the component just mounted, getHistory() in flight *)

Init ==
    /\ variant \in {"App", "Part"}
    /\ selectedImage = NULL
    /\ resultImage = NULL
    /\ prompt = <<"DEFAULT_PROMPT">>
    /\ aspectRatio = "1:1"
    /\ quality = "high"
    /\ status = Idle
    /\ history = <<>>
    /\ skinTexture = TRUE
    /\ faceDetail = 50
    /\ lighting = IF variant = "App" THEN "cinematic" ELSE "dramatic"
    /\ colorGrading = IF variant = "App" THEN "none" ELSE "teal_orange"
    /\ isAnimating = FALSE
    /\ videoResult = NULL
    /\ activeTab = "image"
    /\ backgroundConfig = [type |-> "preset", value |-> "default"]
    /\ chatMessages = <<>>
    /\ batchQueue = <<>>
    /\ isBatchProcessing = FALSE
    /\ tasks = <<>>
    /\ genCalls = <<>>
    /\ \E stored \in StoredInputs :
           historyLoad = [pc |-> "pending", items |-> DbList(stored)]
    /\ idCounter = 0
    /\ savedPrompts = <<>>
    /\ newPresetName = ""
    /\ presetSlot = Stringify(<<>>)
    /\ presetsLoaded = TRUE
    /\ last = [op |-> "mount", task |-> 0]

----------------------------------------------------------------------------
(* Mount effect: getHistory().then(setHistory).catch(console.error) *)

HistoryLoadSettle(ok) ==
    /\ historyLoad.pc = "pending"
    /\ historyLoad' = [pc |-> "done", items |-> <<>>]
    /\ history' = IF ok THEN historyLoad.items ELSE history
    /\ Mark(IF ok THEN "getHistory.ok" ELSE "getHistory.failed", 0)
    /\ UNCHANGED <<presetVars, variant, selectedImage, status, settingsVars, viewVars,
                   batchVars, tasks, genCalls, idCounter>>

----------------------------------------------------------------------------
(* handleImageSelected *)

\* App.tsx: one image or none
HandleImageSelectedApp(base64) ==
    /\ variant = "App"
    /\ selectedImage' = base64
    /\ resultImage' = NULL
    /\ videoResult' = NULL
    /\ activeTab' = "image"
    /\ status' = Idle
    /\ chatMessages' = <<>>
    /\ Mark("handleImageSelected", 0)
    /\ UNCHANGED <<presetVars, variant, history, settingsVars, isAnimating, batchVars,
                   tasks, genCalls, storeVars, idCounter>>

UsedStamps ==
    { batchQueue[j].id.stamp : j \in Indices(batchQueue) }
    \cup UNION { { tasks[t].queue[j].id.stamp : j \in Indices(tasks[t].queue) }
                 : t \in Indices(tasks) }
\* Date.now() of a selection: differs from every stamp still held anywhere
FreshStamp ==
    CHOOSE n \in 1..(MaxTasks + 2) :
        n \notin UsedStamps /\ \A m \in 1..(n - 1) : m \in UsedStamps

\* the new items put behind the items of the queue
NewBatchItemsAppended(images) ==
    batchQueue \o
    [i \in Indices(images) |->
        [id |-> [stamp |-> FreshStamp, i |-> i], original |-> images[i],
         status |-> "pending", result |-> NULL]]

\* base64.map((b, i) => ({ id: `batch-${Date.now()}-${i}`, original: b, status: 'pending' }))
NewBatchItems(images) ==
    [i \in Indices(images) |->
        [id |-> [stamp |-> FreshStamp, i |-> i], original |-> images[i],
         status |-> "pending", result |-> NULL]]

\* part_000: one image, none, or an array of images
HandleImageSelectedPart(base64, isArray) ==
    /\ variant = "Part"
    /\ IF isArray
       THEN /\ batchQueue' = NewBatchItems(base64)
            /\ selectedImage' = base64[1]
       ELSE /\ selectedImage' = base64
            /\ batchQueue' = <<>>
    /\ resultImage' = NULL
    /\ videoResult' = NULL
    /\ activeTab' = "image"
    /\ status' = Idle
    /\ Mark("handleImageSelected", 0)
    /\ UNCHANGED <<presetVars, variant, history, settingsVars, isAnimating, chatMessages,
                   isBatchProcessing, tasks, genCalls, storeVars, idCounter>>

----------------------------------------------------------------------------
(* handleGenerate *)

\* a finally block that leaves the status as it finds it
KeepLoading(prev) == prev

\* a finally block that resets the whole status
ClearLoadingAndError(prev) == Idle

\* the finally block of handleGenerate / handleChatEdit / part_000 handleAnimate:
\* setStatus(prev => ({ ...prev, isLoading: false }))
ClearLoading(prev) == [prev EXCEPT !.isLoading = FALSE]

\* the catch block: setStatus({ isLoading: false, error: error.message || t.errorGeneric })
Failed(m) == [isLoading |-> FALSE, error |-> MessageOr(m, ErrorGeneric)]

\* the image check left out
NoSourceImageUnchecked(img) == FALSE

\* !selectedImage
NoSourceImage(img) == img = NULL

\* if (!selectedImage) return;
HandleGenerateNoImage ==
    /\ NoSourceImage(selectedImage)
    /\ Mark("handleGenerate.noop", 0)
    /\ UNCHANGED <<presetVars, variant, selectedImage, status, history, settingsVars,
                   viewVars, batchVars, tasks, genCalls, storeVars, idCounter>>

\* App.tsx handleGenerate up to its await
HandleGenerateApp ==
    /\ variant = "App"
    /\ ~NoSourceImage(selectedImage)
    /\ CanSpawn
    /\ LET t == Len(tasks) + 1
           finalPrompt == ComposeApp(prompt, skinTexture, faceDetail, lighting,
                                     colorGrading, quality, backgroundConfig)
       IN  /\ status' = Loading
           /\ resultImage' = NULL
           /\ videoResult' = NULL
           /\ activeTab' = "image"
           /\ chatMessages' = <<>>
           /\ tasks' = Append(tasks, NewTask("generate", "awaitGen", selectedImage,
                                             finalPrompt, aspectRatio, <<>>, <<>>))
           /\ genCalls' = Append(genCalls,
                                 NewCall(t, selectedImage, finalPrompt, aspectRatio))
           /\ Mark("handleGenerate", t)
    /\ UNCHANGED <<presetVars, variant, selectedImage, history, settingsVars, isAnimating,
                   batchVars, storeVars, idCounter>>

\* part_000 handleGenerate with an empty batch queue, up to its await
HandleGeneratePart ==
    /\ variant = "Part"
    /\ ~NoSourceImage(selectedImage)
    /\ batchQueue = <<>>
    /\ CanSpawn
    /\ LET t == Len(tasks) + 1
           finalPrompt == constructPrompt(prompt, skinTexture, faceDetail, lighting,
                                          colorGrading, quality, backgroundConfig)
       IN  /\ status' = Loading
           /\ resultImage' = NULL
           /\ tasks' = Append(tasks, NewTask("generate", "awaitGen", selectedImage,
                                             finalPrompt, aspectRatio, <<>>, <<>>))
           /\ genCalls' = Append(genCalls,
                                 NewCall(t, selectedImage, finalPrompt, aspectRatio))
           /\ Mark("handleGenerate", t)
    /\ UNCHANGED <<presetVars, variant, selectedImage, history, settingsVars, videoResult,
                   activeTab, isAnimating, chatMessages, batchVars, storeVars,
                   idCounter>>

\* generateEditedImage settles for a handleGenerate task
GenerateSettle(k, outcome) ==
    /\ Pending(k)
    /\ LET t == genCalls[k].task
           img == GeneratedImage(k)
           item == NewItem(img, tasks[t].prompt, tasks[t].ar, tasks[t].snap)
       IN  /\ tasks[t].kind = "generate"
           /\ genCalls' = Settled(k, outcome)
           /\ IF outcome = "ok"
              THEN /\ resultImage' = img
                   /\ history' = Prepend(item, history)
                   /\ idCounter' = idCounter + 1
                   /\ IF variant = "App"
                      THEN \* await saveHistoryItem(newItem) inside try/catch
                           /\ tasks' = [tasks EXCEPT ![t].pc = "awaitSave",
                                                     ![t].item = item]
                           /\ UNCHANGED status
                      ELSE \* saveHistoryItem(newItem).catch(console.error):
                           \* nothing waits for this save or reads its outcome
                           /\ status' = ClearLoading(status)
                           /\ tasks' = [tasks EXCEPT ![t].pc = "done"]
                   /\ Mark("generate.ok", t)
              ELSE /\ status' = ClearLoading(Failed(outcome))
                   /\ tasks' = [tasks EXCEPT ![t].pc = "done"]
                   /\ Mark("generate.failed", t)
                   /\ UNCHANGED <<resultImage, history, idCounter>>
    /\ UNCHANGED <<presetVars, variant, selectedImage, settingsVars, videoResult, activeTab,
                   isAnimating, chatMessages, batchVars, historyLoad>>

\* setChatMessages([msg]): the update without its `...prev`
ReplaceWithMessage(msgs, m) == <<m>>

\* setChatMessages(prev => [...prev, msg])
AppendMessage(msgs, m) == Append(msgs, m)

\* the user entry of the chat transcript for a chat text
UserMsg(text) == [role |-> "user", text |-> text]
\* the model entry of the chat transcript after a successful edit
ModelMsg == [role |-> "model", text |-> <<"Image updated.">>]
ErrorMsg == [role |-> "model", text |-> <<"Failed to edit image.">>]

\* App.tsx addToHistory: the awaited saveHistoryItem settles; the caller resumes
SaveSettle(t, ok) ==
    /\ t \in Indices(tasks)
    /\ tasks[t].pc = "awaitSave"
    /\ tasks' = [tasks EXCEPT ![t].pc = "done"]
    /\ chatMessages' = IF tasks[t].kind = "chat"
                       THEN AppendMessage(chatMessages, ModelMsg) ELSE chatMessages
    /\ status' = ClearLoading(status)
    /\ Mark(IF ok THEN "save.ok" ELSE "save.failed", t)
    /\ UNCHANGED <<presetVars, variant, selectedImage, history, settingsVars, resultImage,
                   videoResult, activeTab, isAnimating, batchVars, genCalls,
                   historyLoad, idCounter>>

----------------------------------------------------------------------------
(* handleChatEdit (App.tsx) *)

\* if (!sourceImage) return;  then up to the await
HandleChatEdit(text) ==
    /\ variant = "App"
    /\ CanSpawn
    /\ LET sourceImage == IF resultImage # NULL THEN resultImage ELSE selectedImage
           editPrompt == ComposeChatEdit(text, quality, lighting)
           t == Len(tasks) + 1
       IN  /\ sourceImage # NULL
           /\ chatMessages' = AppendMessage(chatMessages, UserMsg(text))
           /\ status' = Loading
           /\ videoResult' = NULL
           /\ activeTab' = "image"
           /\ tasks' = Append(tasks, NewTask("chat", "awaitGen", sourceImage,
                                             editPrompt, aspectRatio, <<>>, text))
           /\ genCalls' = Append(genCalls,
                                 NewCall(t, sourceImage, editPrompt, aspectRatio))
           /\ Mark("handleChatEdit", t)
    /\ UNCHANGED <<presetVars, variant, selectedImage, history, settingsVars, resultImage,
                   isAnimating, batchVars, storeVars, idCounter>>

ChatSettle(k, outcome) ==
    /\ Pending(k)
    /\ LET t == genCalls[k].task
           img == GeneratedImage(k)
           item == NewItem(img, tasks[t].prompt, tasks[t].ar, tasks[t].snap)
       IN  /\ tasks[t].kind = "chat"
           /\ genCalls' = Settled(k, outcome)
           /\ IF outcome = "ok"
              THEN /\ resultImage' = img
                   /\ history' = Prepend(item, history)
                   /\ idCounter' = idCounter + 1
                   /\ tasks' = [tasks EXCEPT ![t].pc = "awaitSave", ![t].item = item]
                   /\ Mark("chat.ok", t)
                   /\ UNCHANGED <<status, chatMessages>>
              ELSE /\ status' = ClearLoading(Failed(outcome))
                   /\ chatMessages' = AppendMessage(chatMessages, ErrorMsg)
                   /\ tasks' = [tasks EXCEPT ![t].pc = "done"]
                   /\ Mark("chat.failed", t)
                   /\ UNCHANGED <<resultImage, history, idCounter>>
    /\ UNCHANGED <<presetVars, variant, selectedImage, settingsVars, videoResult, activeTab,
                   isAnimating, batchVars, storeVars>>

----------------------------------------------------------------------------
(* handleAnimate *)

\* if (!resultImage) return;  then up to the await
HandleAnimate ==
    /\ resultImage # NULL
    /\ CanSpawn
    /\ isAnimating' = TRUE
    /\ status' = Loading
    /\ tasks' = Append(tasks, NewTask("animate", "awaitAnim", resultImage,
                                      <<>>, aspectRatio, <<>>, <<>>))
    /\ Mark("handleAnimate", Len(tasks) + 1)
    /\ UNCHANGED <<presetVars, variant, selectedImage, history, settingsVars, resultImage,
                   videoResult, activeTab, chatMessages, batchVars, genCalls,
                   storeVars, idCounter>>

\* App.tsx finally: setStatus(prev => prev.error ? prev : { ...prev, isLoading: false })
ClearLoadingUnlessError(prev) ==
    IF prev.error # NoError THEN prev ELSE [prev EXCEPT !.isLoading = FALSE]

\* the catch block of handleAnimate
AnimateFailed(m) ==
    IF variant = "App"
    THEN [isLoading |-> FALSE, error |-> MessageOr(m, "Animation failed")]
    ELSE [isLoading |-> FALSE, error |-> MessageOr(m, NoError)]

AnimateSettle(t, outcome) ==
    /\ t \in Indices(tasks)
    /\ tasks[t].pc = "awaitAnim"
    /\ tasks' = [tasks EXCEPT ![t].pc = "done"]
    /\ isAnimating' = FALSE
    /\ IF outcome = "ok"
       THEN /\ videoResult' = VideoOf(tasks[t].image)
            /\ activeTab' = "video"
            /\ status' = IF variant = "App" THEN ClearLoadingUnlessError(status)
                         ELSE ClearLoading(status)
            /\ Mark("animate.ok", t)
       ELSE /\ status' = IF variant = "App"
                         THEN ClearLoadingUnlessError(AnimateFailed(outcome))
                         ELSE ClearLoading(AnimateFailed(outcome))
            /\ Mark("animate.failed", t)
            /\ UNCHANGED <<videoResult, activeTab>>
    /\ UNCHANGED <<presetVars, variant, selectedImage, history, settingsVars, resultImage,
                   chatMessages, batchVars, genCalls, storeVars, idCounter>>

SetActiveTab(tab) ==
    /\ activeTab' = tab
    /\ Mark("setActiveTab", 0)
    /\ UNCHANGED <<presetVars, variant, selectedImage, status, history, settingsVars,
                   resultImage, videoResult, isAnimating, chatMessages, batchVars,
                   tasks, genCalls, storeVars, idCounter>>

----------------------------------------------------------------------------
(* handleBatchGenerate (part_000) *)

\* the map without its id test: every item gets the status
MarkStatusEveryItem(q, id, st) ==
    [j \in Indices(q) |-> [q[j] EXCEPT !.status = st]]

\* prev.map(p => p.id === id ? { ...p, status } : p)
MarkStatus(q, id, st) ==
    [j \in Indices(q) |-> IF q[j].id = id THEN [q[j] EXCEPT !.status = st] ELSE q[j]]
\* prev.map(p => p.id === id ? { ...p, status: 'done', result } : p)
MarkDone(q, id, res) ==
    [j \in Indices(q) |->
        IF q[j].id = id THEN [q[j] EXCEPT !.status = "done", !.result = res]
        ELSE q[j]]

\* handleGenerate with a non-empty queue: handleBatchGenerate up to its first await
HandleBatchGenerate ==
    /\ variant = "Part"
    /\ ~NoSourceImage(selectedImage)
    /\ batchQueue # <<>>
    /\ CanSpawn
    /\ LET t == Len(tasks) + 1
           finalPrompt == constructPrompt(prompt, skinTexture, faceDetail, lighting,
                                          colorGrading, quality, backgroundConfig)
           item == batchQueue[1]
       IN  /\ isBatchProcessing' = TRUE
           /\ batchQueue' = MarkStatus(batchQueue, item.id, "processing")
           /\ tasks' = Append(tasks,
                 [NewTask("batch", "awaitGen", item.original, finalPrompt,
                          aspectRatio, batchQueue, <<>>) EXCEPT !.i = 1])
           /\ genCalls' = Append(genCalls,
                                 NewCall(t, item.original, finalPrompt, aspectRatio))
           /\ Mark("handleBatchGenerate", t)
    /\ UNCHANGED <<presetVars, variant, selectedImage, status, history, settingsVars,
                   viewVars, storeVars, idCounter>>

\* the loop leaving at the first rejected item (a catch around the whole loop)
LoopStopsOnError(i, queue, outcome) == i < Len(queue) /\ outcome = "ok"

\* for (let i = 0; i < batchQueue.length; i++), entered again after item i of
\* `queue` settled with `outcome`; the catch block swallows the error
LoopContinues(i, queue, outcome) == i < Len(queue)

\* one loop iteration resumes: item i settles, item i+1 (if any) is submitted
BatchSettle(k, outcome) ==
    /\ Pending(k)
    /\ LET t == genCalls[k].task
           i == tasks[t].i
           queue == tasks[t].queue
           img == GeneratedImage(k)
           newItem == NewItem(img, tasks[t].prompt, tasks[t].ar, tasks[t].snap)
           q1 == IF outcome = "ok" THEN MarkDone(batchQueue, queue[i].id, img)
                 ELSE MarkStatus(batchQueue, queue[i].id, "error")
       IN  /\ tasks[t].kind = "batch"
           /\ IF outcome = "ok"
              THEN /\ history' = Prepend(newItem, history)
                   /\ idCounter' = idCounter + 1
              ELSE UNCHANGED <<history, idCounter>>
           /\ IF LoopContinues(i, queue, outcome)
              THEN /\ batchQueue' = MarkStatus(q1, queue[i + 1].id, "processing")
                   /\ genCalls' = Append(Settled(k, outcome),
                                         NewCall(t, queue[i + 1].original,
                                                 tasks[t].prompt, tasks[t].ar))
                   /\ tasks' = [tasks EXCEPT ![t].i = i + 1]
                   /\ UNCHANGED isBatchProcessing
              ELSE /\ batchQueue' = q1
                   /\ genCalls' = Settled(k, outcome)
                   /\ tasks' = [tasks EXCEPT ![t].pc = "done"]
                   /\ isBatchProcessing' = FALSE
           /\ Mark(IF outcome = "ok" THEN "batch.ok" ELSE "batch.failed", t)
    /\ UNCHANGED <<presetVars, variant, selectedImage, status, settingsVars, viewVars,
                   historyLoad>>

\* handleGenerate, from its entry to its first suspension or return
HandleGenerate ==
    \/ HandleGenerateNoImage
    \/ HandleGenerateApp
    \/ HandleGeneratePart
    \/ HandleBatchGenerate

----------------------------------------------------------------------------
(* History controls (App.tsx) *)

HandleDeleteHistoryItem(id) ==
    /\ variant = "App"
    /\ CanSpawn
    /\ tasks' = Append(tasks, NewTask("delete", "awaitDelete", NULL, <<>>,
                                      aspectRatio, <<>>, <<id>>))
    /\ Mark("handleDeleteHistoryItem", Len(tasks) + 1)
    /\ UNCHANGED <<presetVars, variant, selectedImage, status, history, settingsVars,
                   viewVars, batchVars, genCalls, storeVars, idCounter>>

\* the filter with its test inverted: only the item with the id is kept
HistoryAfterDeleteInverted(h, id, ok) ==
    LET Same(x) == x.id = id IN IF ok THEN SelectSeq(h, Same) ELSE h

\* the filter applied before the store answers, whatever it answers
HistoryAfterDeleteOptimistic(h, id, ok) == FilterSeq(h, id)

\* try { await deleteHistoryItem(id); setHistory(prev => prev.filter(...)) }
\* catch (err) { console.error(...) }
HistoryAfterDelete(h, id, ok) == IF ok THEN FilterSeq(h, id) ELSE h

DeleteSettle(t, ok) ==
    /\ t \in Indices(tasks)
    /\ tasks[t].pc = "awaitDelete"
    /\ tasks' = [tasks EXCEPT ![t].pc = "done"]
    /\ history' = HistoryAfterDelete(history, tasks[t].arg[1], ok)
    /\ Mark(IF ok THEN "delete.ok" ELSE "delete.failed", t)
    /\ UNCHANGED <<presetVars, variant, selectedImage, status, settingsVars, viewVars,
                   batchVars, genCalls, historyLoad, idCounter>>

\* the user confirmed the dialog
HandleClearHistory ==
    /\ variant = "App"
    /\ CanSpawn
    /\ tasks' = Append(tasks, NewTask("clear", "awaitClear", NULL, <<>>,
                                      aspectRatio, <<>>, <<>>))
    /\ Mark("handleClearHistory", Len(tasks) + 1)
    /\ UNCHANGED <<presetVars, variant, selectedImage, status, history, settingsVars,
                   viewVars, batchVars, genCalls, storeVars, idCounter>>

\* await clearHistoryDB(); setHistory([])
ClearSettle(t, ok) ==
    /\ t \in Indices(tasks)
    /\ tasks[t].pc = "awaitClear"
    /\ tasks' = [tasks EXCEPT ![t].pc = "done"]
    /\ IF ok
       THEN history' = <<>>
       ELSE UNCHANGED history
    /\ Mark(IF ok THEN "clear.ok" ELSE "clear.failed", t)
    /\ UNCHANGED <<presetVars, variant, selectedImage, status, settingsVars, viewVars,
                   batchVars, genCalls, historyLoad, idCounter>>

restoreHistoryItem(item) ==
    /\ variant = "App"
    /\ resultImage' = item.imageUrl
    \* item.prompt.split(',')[0]
    /\ prompt' = <<Head(item.prompt)>>
    /\ aspectRatio' = item.aspectRatio
    /\ skinTexture' = item.skinTexture
    /\ faceDetail' = item.faceDetail
    /\ lighting' = item.lighting
    /\ colorGrading' = item.colorGrading
    /\ videoResult' = NULL
    /\ activeTab' = "image"
    /\ chatMessages' = <<>>
    /\ Mark("restoreHistoryItem", 0)
    /\ UNCHANGED <<presetVars, variant, selectedImage, status, history, quality,
                   backgroundConfig, isAnimating, batchVars, tasks, genCalls,
                   storeVars, idCounter>>

----------------------------------------------------------------------------
(* The rendered controls: which handler a user event can reach *)

\* <ImageUpload onImageSelected={handleImageSelected} />
SelectImage ==
    \/ \E b \in SingleInputs : HandleImageSelectedApp(b)
    \/ \E b \in SingleInputs : HandleImageSelectedPart(b, FALSE)
    \/ \E b \in BatchInputs : HandleImageSelectedPart(b, TRUE)

\* App.tsx:  <Button onClick={handleGenerate} isLoading={status.isLoading}
\*                   disabled={!selectedImage}>
\* part_000: isLoading={status.isLoading || isBatchProcessing}
\*           disabled={!selectedImage && batchQueue.length === 0}
GenerateButtonEnabled ==
    IF variant = "App"
    THEN ButtonEnabled(status.isLoading, selectedImage = NULL)
    ELSE ButtonEnabled(status.isLoading \/ isBatchProcessing,
                       selectedImage = NULL /\ batchQueue = <<>>)

ClickGenerate == GenerateButtonEnabled /\ HandleGenerate

\* {!videoResult && <Button onClick={handleAnimate} isLoading={isAnimating}>}
\* inside the result view
AnimateButtonEnabled ==
    /\ resultImage # NULL
    /\ videoResult = NULL
    /\ ButtonEnabled(isAnimating, FALSE)

ClickAnimate == AnimateButtonEnabled /\ HandleAnimate

\* <ChatInterface onSendMessage={handleChatEdit} isLoading={status.isLoading}
\*                disabled={!resultImage || isAnimating} /> inside the result view
ChatInputEnabled ==
    /\ variant = "App"
    /\ resultImage # NULL
    /\ ChatEnabled(status.isLoading, resultImage = NULL \/ isAnimating)

SendChat == ChatInputEnabled /\ \E text \in ChatInputs : HandleChatEdit(text)

\* App.tsx renders the tabs when videoResult is set, part_000 with every result
\* the tabs shown with every result image
TabsRenderedWithResult == resultImage # NULL

TabsRendered ==
    /\ resultImage # NULL
    /\ variant = "App" => videoResult # NULL

ClickTab == TabsRendered /\ \E tab \in {"image", "video"} : SetActiveTab(tab)

\* the history reel of App.tsx
ClickHistory ==
    \/ \E i \in Indices(history) : restoreHistoryItem(history[i])
    \/ \E i \in Indices(history) : HandleDeleteHistoryItem(history[i].id)
    \/ history # <<>> /\ HandleClearHistory

\* promises of the external collaborators settle
Settle ==
    \/ \E ok \in BOOLEAN : HistoryLoadSettle(ok)
    \/ \E k \in Indices(genCalls), o \in Outcomes : GenerateSettle(k, o)
    \/ \E k \in Indices(genCalls), o \in Outcomes : ChatSettle(k, o)
    \/ \E k \in Indices(genCalls), o \in BatchOutcomes : BatchSettle(k, o)
    \/ \E t \in Indices(tasks), o \in Outcomes : AnimateSettle(t, o)
    \/ \E t \in Indices(tasks), ok \in BOOLEAN : SaveSettle(t, ok)
    \/ \E t \in Indices(tasks), ok \in BOOLEAN : DeleteSettle(t, ok)
    \/ \E t \in Indices(tasks), ok \in BOOLEAN : ClearSettle(t, ok)

\* a handler entered without an image (the rendered controls are disabled then,
\* so only a direct call gets here): the early return
CallWithoutImage == selectedImage = NULL /\ HandleGenerate

Next ==
    \/ SelectImage
    \/ CallWithoutImage
    \/ ClickGenerate
    \/ ClickAnimate
    \/ SendChat
    \/ ClickTab
    \/ ClickHistory
    \/ Settle

Spec == Init /\ [][Next]_vars

\* the promise task t is suspended on settles (resolves or rejects)
Resume(t) ==
    \/ \E k \in Indices(genCalls), o \in Outcomes :
          genCalls[k].task = t /\ (GenerateSettle(k, o) \/ ChatSettle(k, o))
    \/ \E k \in Indices(genCalls), o \in BatchOutcomes :
          genCalls[k].task = t /\ BatchSettle(k, o)
    \/ \E o \in Outcomes : AnimateSettle(t, o)
    \/ \E ok \in BOOLEAN : SaveSettle(t, ok) \/ DeleteSettle(t, ok) \/ ClearSettle(t, ok)

\* every promise a handler awaits settles: the clients and the persistence
\* adapter resolve or reject, and the event loop then resumes the handler
FairSpec == Spec /\ \A t \in 1..MaxTasks : WF_vars(Resume(t))

----------------------------------------------------------------------------
(* Prompt composition over the settings the panels can produce.  The        *)
(* behaviours start with a source image selected and the settings chosen,  *)
(* and call handleGenerate directly, toggling the skin switch in between.  *)

\* range slider min 0 max 100: App.tsx lines 575-583, part_000 line 285
FaceDetailInputs == 0..100
\* lighting buttons: App.tsx line 593, part_000 line 294
LightingInputs == {"soft", "cinematic", "dramatic", "intense"}
\* color-grading buttons of App.tsx line 619; part_000 has no control for it
ColorGradingInputs(v) ==
    IF v = "App"
    THEN {"none", "warm_vintage", "cool_noir", "teal_orange", "classic_bw"}
    ELSE {"teal_orange"}
\* background controls of App.tsx lines 652 and 673; part_000 has none
BackgroundInputs(v) ==
    IF v = "App"
    THEN {[type |-> "preset", value |-> "default"]}
         \cup {[type |-> "preset", value |-> id] : id \in BACKGROUND_PRESETS}
         \cup {[type |-> "custom_color", value |-> "#00ff00"]}
    ELSE {[type |-> "preset", value |-> "default"]}

ComposeInit ==
    /\ variant \in {"App", "Part"}
    /\ selectedImage = SourceImage(1)
    /\ resultImage = NULL
    /\ prompt = <<"DEFAULT_PROMPT">>
    /\ aspectRatio = "1:1"
    /\ quality = "high"
    /\ status = Idle
    /\ history = <<>>
    /\ skinTexture \in BOOLEAN
    /\ faceDetail \in FaceDetailInputs
    /\ lighting \in LightingInputs
    /\ colorGrading \in ColorGradingInputs(variant)
    /\ isAnimating = FALSE
    /\ videoResult = NULL
    /\ activeTab = "image"
    /\ backgroundConfig \in BackgroundInputs(variant)
    /\ chatMessages = <<>>
    /\ batchQueue = <<>>
    /\ isBatchProcessing = FALSE
    /\ tasks = <<>>
    /\ genCalls = <<>>
    /\ \E stored \in StoredInputs :
           historyLoad = [pc |-> "pending", items |-> DbList(stored)]
    /\ idCounter = 0
    /\ savedPrompts = <<>>
    /\ newPresetName = ""
    /\ presetSlot = Stringify(<<>>)
    /\ presetsLoaded = TRUE
    /\ last = [op |-> "mount", task |-> 0]

\* setSkinTexture(!skinTexture): App.tsx line 562, part_000 line 278
SetSkinTexture ==
    /\ skinTexture' = ~skinTexture
    /\ Mark("setSkinTexture", 0)
    /\ UNCHANGED <<presetVars, variant, selectedImage, status, history, prompt, aspectRatio,
                   quality, faceDetail, lighting, colorGrading, backgroundConfig,
                   viewVars, batchVars, storeVars, tasks, genCalls, idCounter>>

ComposeNext ==
    \/ SetSkinTexture
    \/ HandleGenerateApp
    \/ HandleGeneratePart

ComposeSpec == ComposeInit /\ [][ComposeNext]_vars

----------------------------------------------------------------------------
(* Generation with the skin switch flipped at any time: the settings       *)
(* controls are never disabled, so a setting can change while a call is    *)
(* outstanding.                                                            *)

SnapshotNext ==
    \/ SetSkinTexture
    \/ \E b \in SingleInputs : HandleImageSelectedApp(b)
    \/ \E b \in SingleInputs : HandleImageSelectedPart(b, FALSE)
    \/ ClickGenerate
    \/ \E k \in Indices(genCalls), o \in Outcomes : GenerateSettle(k, o)
    \/ \E t \in Indices(tasks), ok \in BOOLEAN : SaveSettle(t, ok)

SnapshotSpec == Init /\ [][SnapshotNext]_vars

----------------------------------------------------------------------------
(* Saved prompts (App.tsx): the list, its name field and the slot.  The    *)
(* effect of lines 101-103 runs after every render that changed the list,  *)
(* before the next event is handled, so it is part of the step.            *)

\* a preset a previous session saved
OldPreset(n) == [id |-> n, name |-> "portrait", text |-> <<"DEFAULT_PROMPT">>]
\* what the slot holds before the component mounts
SlotInputs ==
    { NoEntry, Garbage, Stringify(<<>>), Stringify(<<OldPreset(1)>>),
      Stringify(<<OldPreset(1), OldPreset(2)>>) }
\* what the user types in the name field
NameInputs == { "", " ", "noir", " warm " }
\* String.prototype.trim
Trim(name) ==
    IF name = " " THEN "" ELSE IF name = " warm " THEN "warm" ELSE name
\* base prompts the user types or picks
PromptInputs == { <<"DEFAULT_PROMPT">>, <<"a portrait", "at dusk">> }

PresetInit ==
    /\ variant = "App"
    /\ selectedImage = NULL
    /\ resultImage = NULL
    /\ prompt \in PromptInputs
    /\ aspectRatio = "1:1"
    /\ quality = "high"
    /\ status = Idle
    /\ history = <<>>
    /\ skinTexture = TRUE
    /\ faceDetail = 50
    /\ lighting = "cinematic"
    /\ colorGrading = "none"
    /\ isAnimating = FALSE
    /\ videoResult = NULL
    /\ activeTab = "image"
    /\ backgroundConfig = [type |-> "preset", value |-> "default"]
    /\ chatMessages = <<>>
    /\ batchQueue = <<>>
    /\ isBatchProcessing = FALSE
    /\ tasks = <<>>
    /\ genCalls = <<>>
    /\ \E stored \in StoredInputs :
           historyLoad = [pc |-> "pending", items |-> DbList(stored)]
    /\ idCounter = 0
    /\ savedPrompts = <<>>
    /\ newPresetName = ""
    /\ presetSlot \in SlotInputs
    /\ presetsLoaded = FALSE
    /\ last = [op |-> "construct", task |-> 0]

PresetFrame ==
    UNCHANGED <<variant, selectedImage, status, history, settingsVars, viewVars,
                batchVars, tasks, genCalls, storeVars, idCounter>>

\* the list the save effect serializes last on mount: the first render
RenderedBeforeLoad(loaded, initial) == initial
\* the list the save effect serializes last on mount: setSavedPrompts(parsed)
\* causes a second render, and the effect runs again with the loaded list
RenderedAfterLoad(loaded, initial) == loaded

\* the mount effects, App.tsx lines 82-91 and 101-103, in order
MountPresets ==
    /\ variant = "App"
    /\ ~presetsLoaded
    /\ LET saved == presetSlot
           parsed == saved.kind # "absent" /\ ParseOk(saved)
       IN  /\ savedPrompts' = IF parsed THEN Parse(saved) ELSE savedPrompts
           /\ presetSlot' =
                 IF parsed
                 THEN Stringify(RenderedAfterLoad(Parse(saved), savedPrompts))
                 ELSE Stringify(savedPrompts)
    /\ presetsLoaded' = TRUE
    /\ Mark("mountPresets", 0)
    /\ UNCHANGED newPresetName
    /\ PresetFrame

\* setNewPresetName(e.target.value), App.tsx line 748
SetNewPresetName(name) ==
    /\ variant = "App"
    /\ presetsLoaded
    /\ newPresetName' = name
    /\ Mark("setNewPresetName", 0)
    /\ UNCHANGED <<savedPrompts, presetSlot, presetsLoaded>>
    /\ PresetFrame

\* Date.now().toString() of a later click
FreshPresetId ==
    1 + (IF savedPrompts = <<>> THEN 0
         ELSE CHOOSE m \in IdsOf(savedPrompts) : \A n \in IdsOf(savedPrompts) : n <= m)

\* [...savedPrompts, newPreset], App.tsx line 367
AppendPreset(list, preset) == Append(list, preset)

\* App.tsx lines 360-370, then the effect of lines 101-103
HandleSavePreset ==
    /\ variant = "App"
    /\ presetsLoaded
    /\ Len(savedPrompts) < MaxPresets
    /\ FreshPresetId <= MaxPresetId
    /\ IF Trim(newPresetName) = ""
       THEN /\ UNCHANGED <<savedPrompts, newPresetName, presetSlot>>
            /\ Mark("handleSavePreset.noop", 0)
       ELSE LET newPreset == [id |-> FreshPresetId, name |-> Trim(newPresetName),
                              text |-> prompt]
            IN  /\ savedPrompts' = AppendPreset(savedPrompts, newPreset)
                /\ newPresetName' = ""
                /\ presetSlot' = Stringify(savedPrompts')
                /\ Mark("handleSavePreset", 0)
    /\ UNCHANGED presetsLoaded
    /\ PresetFrame

\* App.tsx lines 372-375, then the effect of lines 101-103
HandleDeletePreset(id) ==
    /\ variant = "App"
    /\ presetsLoaded
    /\ savedPrompts' = FilterSeq(savedPrompts, id)
    /\ presetSlot' = Stringify(savedPrompts')
    /\ Mark("handleDeletePreset", 0)
    /\ UNCHANGED <<newPresetName, presetsLoaded>>
    /\ PresetFrame

PresetNext ==
    \/ MountPresets
    \/ \E name \in NameInputs : SetNewPresetName(name)
    \/ HandleSavePreset
    \/ \E i \in Indices(savedPrompts) : HandleDeletePreset(savedPrompts[i].id)

PresetSpec == PresetInit /\ [][PresetNext]_vars

----------------------------------------------------------------------------
(* handleChatEdit called with or without a result image (App.tsx) *)

ChatInit == Init /\ variant = "App"

ChatNext ==
    \/ \E b \in SingleInputs : HandleImageSelectedApp(b)
    \/ ClickGenerate
    \/ \E text \in ChatInputs : HandleChatEdit(text)
    \/ \E k \in Indices(genCalls), o \in Outcomes : GenerateSettle(k, o)
    \/ \E k \in Indices(genCalls), o \in Outcomes : ChatSettle(k, o)
    \/ \E t \in Indices(tasks), ok \in BOOLEAN : SaveSettle(t, ok)

ChatSpec == ChatInit /\ [][ChatNext]_vars

----------------------------------------------------------------------------
(* Generate, then restore from the history, with the prompt and the skin   *)
(* switch edited in between (App.tsx)                                      *)

\* setPrompt(e.target.value), App.tsx line 734
SetPrompt(p) ==
    /\ variant = "App"
    /\ prompt' = p
    /\ Mark("setPrompt", 0)
    /\ UNCHANGED <<presetVars, variant, selectedImage, status, history,
                   aspectRatio, quality, skinTexture, faceDetail, lighting,
                   colorGrading, backgroundConfig, viewVars, batchVars,
                   storeVars, tasks, genCalls, idCounter>>

RoundTripNext ==
    \/ \E p \in PromptInputs : SetPrompt(p)
    \/ SetSkinTexture
    \/ \E b \in SingleInputs : HandleImageSelectedApp(b)
    \/ ClickGenerate
    \/ \E k \in Indices(genCalls), o \in Outcomes : GenerateSettle(k, o)
    \/ \E t \in Indices(tasks), ok \in BOOLEAN : SaveSettle(t, ok)
    \/ \E i \in Indices(history) : restoreHistoryItem(history[i])

RoundTripSpec == ChatInit /\ [][RoundTripNext]_vars

----------------------------------------------------------------------------
(* Properties *)

Tasks == 1..MaxTasks
Live(t) == t \in Indices(tasks)

\* call k succeeds in this step
Succeeds(k) ==
    /\ k \in Indices(genCalls)
    /\ genCalls[k].state = "pending"
    /\ genCalls'[k].state = "ok"

\* C1: every Generation Client call that succeeds (handleGenerate, handleChatEdit
\* or a batch item) puts exactly one new item at the head of the in-memory
\* history, carrying the prompt and aspect ratio that were passed to the client
\* for that call; no other handler step adds an item, and the save of the item
\* settling, with success or with failure, leaves the history as it is.
C1_OneItemPerSuccess ==
    [][ /\ \A k \in 1..(MaxTasks * MaxBatch) :
              Succeeds(k) =>
                 /\ Len(history') = Len(history) + 1
                 /\ Tail(history') = history
                 /\ Head(history').imageUrl = GeneratedImage(k)
                 /\ Head(history').prompt = genCalls[k].prompt
                 /\ Head(history').aspectRatio = genCalls[k].ar
                 /\ Head(history').id \notin IdsOf(history)
        /\ Len(history') > Len(history) =>
              \/ \E k \in Indices(genCalls) : Succeeds(k)
              \/ historyLoad.pc = "pending" /\ historyLoad'.pc = "done"
        /\ \A t \in Tasks :
              (Live(t) /\ tasks[t].pc = "awaitSave" /\ tasks'[t].pc = "done")
                 => history' = history
      ]_vars

\* a save failed and the item it was saving is in the in-memory history
C1_Witness ==
    /\ last.op = "save.failed"
    /\ Live(last.task)
    /\ tasks[last.task].item.id \in IdsOf(history)
    /\ \E i \in Indices(history) :
          /\ history[i].id = tasks[last.task].item.id
          /\ history[i].prompt = tasks[last.task].prompt

\* the calls task t has issued, in issue order
CallsOf(t) ==
    LET Mine(c) == c.task = t IN SelectSeq(genCalls, Mine)

\* C2: a run of handleBatchGenerate over a queue of N items calls the
\* Generation Client for the items in queue order, one call per item; only the
\* most recent call of the run can be outstanding; and whenever no call of the
\* run is outstanding, all N have been issued, whatever their outcomes were.
C2_BatchSequential ==
    \A t \in Tasks :
       (Live(t) /\ tasks[t].kind = "batch") =>
          LET mine == CallsOf(t)
              queue == tasks[t].queue
          IN  /\ Len(mine) >= 1
              /\ Len(mine) <= Len(queue)
              /\ \A j \in Indices(mine) : mine[j].image = queue[j].original
              /\ \A j \in 1..(Len(mine) - 1) : mine[j].state # "pending"
              /\ mine[Len(mine)].state # "pending" => Len(mine) = Len(queue)
              /\ tasks[t].pc = "done" <=> mine[Len(mine)].state # "pending"

\* a run over MaxBatch items is over; a call before the last one had failed
C2_Witness ==
    \E t \in Tasks :
       /\ Live(t) /\ tasks[t].kind = "batch" /\ tasks[t].pc = "done"
       /\ Len(tasks[t].queue) = MaxBatch
       /\ Len(CallsOf(t)) = MaxBatch
       /\ \E j \in 1..(MaxBatch - 1) : CallsOf(t)[j].state = "failed"

\* the status the batch queue shows for the item with this id, "absent" if the
\* queue no longer holds it
StatusOf(id) ==
    IF \E j \in Indices(batchQueue) : batchQueue[j].id = id
    THEN batchQueue[CHOOSE j \in Indices(batchQueue) : batchQueue[j].id = id].status
    ELSE "absent"

BatchJustCompleted(t) ==
    /\ Live(t) /\ tasks[t].kind = "batch" /\ tasks[t].pc = "done"
    /\ last.task = t /\ last.op \in {"batch.ok", "batch.failed"}

\* C3: when a batch run completes, every item of its queue that the batch queue
\* still holds shows 'done' if its call succeeded and 'error' if it failed (and
\* nothing else); a queue that was not replaced during the run holds them all.
C3_FinalStatuses ==
    \A t \in Tasks :
       BatchJustCompleted(t) =>
          LET mine == CallsOf(t)
              queue == tasks[t].queue
          IN  /\ \A j \in Indices(queue) :
                    StatusOf(queue[j].id) \in
                       {IF mine[j].state = "ok" THEN "done" ELSE "error", "absent"}
              /\ IdsOf(batchQueue) = IdsOf(queue) =>
                    \A j \in Indices(queue) : StatusOf(queue[j].id) # "absent"

\* three items, only the second failed: [done, error, done]
C3_Witness ==
    \E t \in Tasks :
       /\ BatchJustCompleted(t)
       /\ Len(batchQueue) = 3 /\ Len(tasks[t].queue) = 3 /\ Len(CallsOf(t)) = 3
       /\ [j \in 1..3 |-> CallsOf(t)[j].state] = <<"ok", "failed", "ok">>
       /\ [j \in 1..3 |-> batchQueue[j].status] = <<"done", "error", "done">>
       /\ [j \in 1..3 |-> batchQueue[j].id] = [j \in 1..3 |-> tasks[t].queue[j].id]

----------------------------------------------------------------------------

\* task t is an invocation of handleGenerate or handleChatEdit that passed the
\* image check
GenerationTask(t) == Live(t) /\ tasks[t].kind \in {"generate", "chat"}
\* this step starts task t
Starts(t) == Len(tasks) = t - 1 /\ Len(tasks') = t
\* this step is the last step of task t
Finishes(t) == Live(t) /\ tasks[t].pc # "done" /\ tasks'[t].pc = "done"

\* C4: an invocation of handleGenerate or handleChatEdit that passes the image
\* check sets status.isLoading to true; its last step, which comes after the
\* Generation Client call settled, leaves status.isLoading false, on the
\* success path and on the failure path; and every such invocation gets to that
\* last step, provided the promises it awaits settle.
C4_LoadingCleared ==
    /\ [][ \A t \in Tasks :
              /\ (Starts(t) /\ tasks'[t].kind \in {"generate", "chat"})
                    => status'.isLoading
              /\ (GenerationTask(t) /\ Finishes(t))
                    => /\ ~status'.isLoading
                       /\ \A k \in Indices(genCalls') :
                             genCalls'[k].task = t => genCalls'[k].state # "pending"
         ]_vars
    /\ \A t \in Tasks :
          (GenerationTask(t) /\ tasks[t].pc = "awaitGen")
             ~> (GenerationTask(t) /\ tasks[t].pc = "done")

\* a chat edit went through its success path: the call resolved, the save
\* settled, the handler ended and the loading flag is off
C4_Witness ==
    /\ last.op \in {"save.ok", "save.failed"}
    /\ GenerationTask(last.task)
    /\ tasks[last.task].kind = "chat"
    /\ tasks[last.task].pc = "done"
    /\ ~status.isLoading

\* the call issued by task t (handleGenerate issues one)
CallOf(t) == CHOOSE k \in Indices(genCalls) : genCalls[k].task = t

\* C5: when the call made by handleGenerate is rejected and nothing else ran
\* between the handler's start and the rejection, the handler ends with
\* status.error set to the error's message, or to the generic message when the
\* error has none, status.isLoading false, no result image and the history as
\* it was: the finally block keeps the error the catch block wrote.
C5_FailureReported ==
    [][ \A t \in Tasks :
           ( /\ last = [op |-> "handleGenerate", task |-> t]
             /\ last' = [op |-> "generate.failed", task |-> t] )
           => /\ status'.error # NoError
              /\ status'.error =
                    IF genCalls'[CallOf(t)].message = NoMessage THEN ErrorGeneric
                    ELSE genCalls'[CallOf(t)].message
              /\ ~status'.isLoading
              /\ resultImage' = NULL
              /\ history' = history
              /\ tasks'[t].pc = "done"
      ]_vars

\* handleGenerate was rejected with an error that has no message
C5_Witness ==
    /\ last.op = "generate.failed"
    /\ Live(last.task)
    /\ genCalls[CallOf(last.task)].message = NoMessage
    /\ status = [isLoading |-> FALSE, error |-> ErrorGeneric]
    /\ resultImage = NULL

\* this step is a call of handleGenerate
HandleGenerateCalled ==
    /\ last' # last
    /\ last'.op \in {"handleGenerate.noop", "handleGenerate", "handleBatchGenerate"}

\* C6: handleGenerate called while selectedImage is null issues no Generation
\* Client call, starts nothing, and leaves status (its error included),
\* resultImage, videoResult, history, the chat transcript and the batch queue
\* as they were.
C6_NoImageNoOp ==
    [][ (selectedImage = NULL /\ HandleGenerateCalled)
           => /\ genCalls' = genCalls
              /\ tasks' = tasks
              /\ UNCHANGED <<status, resultImage, videoResult, history,
                             chatMessages, batchQueue, isBatchProcessing>>
      ]_vars

\* handleGenerate returned at its image check, an earlier error still shown
C6_Witness ==
    /\ last.op = "handleGenerate.noop"
    /\ selectedImage = NULL
    /\ status.error # NoError
    /\ history # <<>>

\* this step is a generation submission (handleGenerate or handleChatEdit
\* past its image check) by task t
Submits(t) == Starts(t) /\ tasks'[t].kind \in {"generate", "chat"}

\* C7: every generation submission starts with status.isLoading false, whatever
\* status.error is, and sets status to loading with no error; and whenever
\* status.isLoading goes from true to false, the state reached shows a result
\* image or an error.
C7_StatusCycle ==
    [][ /\ \A t \in Tasks :
              Submits(t) => (~status.isLoading /\ status' = Loading)
        /\ (status.isLoading /\ ~status'.isLoading)
              => (resultImage' # NULL \/ status'.error # NoError)
      ]_vars

\* C8: at most one Generation Client call is outstanding at any time, with
\* every control disabled while its loading flag is set.
C8_OneOutstanding == Cardinality(Outstanding) <= 1

\* this step is task t resuming from a persistence call that failed
PersistenceFailed(t) ==
    /\ Finishes(t)
    /\ tasks[t].pc \in {"awaitSave", "awaitDelete", "awaitClear"}
    /\ last'.op \in {"save.failed", "delete.failed", "clear.failed"}

\* the history the handler suspended on a persistence call leaves when the
\* call succeeds
AfterSuccess(t) ==
    CASE tasks[t].pc = "awaitSave" -> history
      [] tasks[t].pc = "awaitDelete" ->
            LET Other(x) == x.id # tasks[t].arg[1] IN SelectSeq(history, Other)
      [] tasks[t].pc = "awaitClear" -> <<>>

\* C9 as stated: a handler resuming from a failed persistence call
\* (saveHistoryItem, deleteHistoryItem, clearHistoryDB) leaves the in-memory
\* history that it leaves when the call succeeds.
C9_FailureSameAsSuccess ==
    [][ \A t \in Tasks : PersistenceFailed(t) => history' = AfterSuccess(t) ]_vars

\* C9, amended: a failed persistence call is only logged: the handler resuming
\* from it leaves the in-memory history and status.error as they are. For
\* saveHistoryItem that is the history with the item already added, as after a
\* successful save; for deleteHistoryItem and clearHistoryDB it is the history
\* with nothing removed, where a successful call removes the item, or all items.
C9_FailureOnlyLogged ==
    [][ \A t \in Tasks :
           /\ PersistenceFailed(t)
                 => (history' = history /\ status'.error = status.error)
           /\ (Finishes(t) /\ last'.op = "delete.ok")
                 => tasks[t].arg[1] \notin IdsOf(history')
           /\ (Finishes(t) /\ last'.op = "clear.ok") => history' = <<>>
           /\ (Finishes(t) /\ last'.op = "save.ok") => history' = history
      ]_vars

\* a delete failed in the store and the item is still in the in-memory history
C9_Witness ==
    /\ last.op = "delete.failed"
    /\ Live(last.task)
    /\ tasks[last.task].pc = "done"
    /\ tasks[last.task].arg[1] \in IdsOf(history)

\* where the item at position i of h stands once the items with this id are gone
PosWithout(h, id, i) == i - Cardinality({ j \in 1..i : h[j].id = id })

\* C10: when handleDeleteHistoryItem(id) completes with the store's delete
\* succeeded, the in-memory history holds no item with that id, and holds every
\* other item it held before, in the same relative order, and nothing else.
C10_DeleteExactlyThatId ==
    [][ \A t \in Tasks :
           (Finishes(t) /\ last'.op = "delete.ok")
           => LET id == tasks[t].arg[1]
                  kept == { i \in Indices(history) : history[i].id # id }
              IN  /\ id \notin IdsOf(history')
                  /\ Len(history') = Cardinality(kept)
                  /\ \A i \in kept : history'[PosWithout(history, id, i)] = history[i]
      ]_vars

\* the middle one of three items was deleted: the newest and the oldest remain
C10_Witness ==
    /\ last.op = "delete.ok"
    /\ Live(last.task)
    /\ tasks[last.task].arg[1] = OldItem(1).id
    /\ Len(history) = 2
    /\ history[1].id > 0
    /\ history[2] = OldItem(2)

\* this step is the last step of task t, an invocation of handleAnimate
AnimateFinishes(t) == Finishes(t) /\ tasks[t].kind = "animate"

\* C11: when the Animation Client call of handleAnimate resolves, videoResult
\* is set and activeTab is 'video'; when it is rejected, status.error holds an
\* error, activeTab and resultImage (and videoResult) stay as they were; either
\* way the handler ends with isAnimating and status.isLoading false.
C11_AnimateOutcome ==
    [][ \A t \in Tasks :
           AnimateFinishes(t)
           => /\ ~isAnimating'
              /\ ~status'.isLoading
              /\ last'.op = "animate.ok"
                    => (videoResult' # NULL /\ activeTab' = "video")
              /\ last'.op = "animate.failed"
                    => /\ status'.error # NoError
                       /\ activeTab' = activeTab
                       /\ resultImage' = resultImage
                       /\ videoResult' = videoResult
      ]_vars

\* this step is the last step of task t, an invocation of handleChatEdit
ChatFinishes(t) == Finishes(t) /\ tasks[t].kind = "chat"

\* C12: when an invocation of handleChatEdit that passed its source-image
\* check ends, the chat transcript holds the user entry for its text directly
\* followed by the model entry for it: the success message if the call
\* resolved, the failure message if it was rejected.
C12_ChatPair ==
    [][ \A t \in Tasks :
           ChatFinishes(t)
           => \E i \in 1..(Len(chatMessages') - 1) :
                 /\ chatMessages'[i] = UserMsg(tasks[t].arg)
                 /\ chatMessages'[i + 1] =
                       IF last'.op = "chat.failed" THEN ErrorMsg ELSE ModelMsg
      ]_vars

\* s is t, or t with entries added at its end
Extends(s, t) == Len(s) >= Len(t) /\ SubSeq(s, 1, Len(t)) = t
\* this step empties a transcript that held entries
ClearsTranscript == chatMessages # <<>> /\ chatMessages' = <<>>

\* C13 as stated: every step leaves the transcript's entries in place and at
\* most adds entries at its end, or is a selection of a source image, which
\* empties it; no other step empties it.
C13_AppendOnly ==
    [][ /\ Extends(chatMessages', chatMessages)
           \/ (ClearsTranscript /\ last'.op = "handleImageSelected")
        /\ (last'.op = "handleImageSelected" /\ last' # last)
              => chatMessages' = <<>>
      ]_vars

\* the App.tsx handlers that run setChatMessages([])
ClearingOps == {"handleImageSelected", "handleGenerate", "restoreHistoryItem"}

\* C13, amended: every step leaves the transcript's entries in place and at
\* most adds entries at its end, or is one of handleImageSelected,
\* handleGenerate (past its image check) and restoreHistoryItem, each of which
\* empties it in src/App.tsx; no other step empties it (part_000 never writes
\* the transcript).
C13_AppendOnlyOrCleared ==
    [][ /\ Extends(chatMessages', chatMessages)
           \/ (ClearsTranscript /\ last'.op \in ClearingOps)
        /\ (last'.op \in ClearingOps /\ last' # last)
              => chatMessages' = <<>>
      ]_vars

\* a chat edit ran to its end, and restoring a history item left the
\* transcript empty
C13_Witness ==
    /\ last.op = "restoreHistoryItem"
    /\ chatMessages = <<>>
    /\ \E t \in Tasks : Live(t) /\ tasks[t].kind = "chat" /\ tasks[t].pc = "done"
    /\ resultImage # NULL
    /\ selectedImage # NULL


\* handleGenerate or handleBatchGenerate composes the prompt of task t in this step
Composes(t) == Starts(t) /\ tasks'[t].kind \in {"generate", "batch"}
\* what that composition appended to the base prompt
Appended(t) == SubSeq(tasks'[t].prompt, Len(prompt) + 1, Len(tasks'[t].prompt))
\* the number of segments of s that belong to the set S
Count(s, S) == Cardinality({ i \in Indices(s) : s[i] \in S })
ColorGradingPhrases ==
    { COLOR_GRADING_STYLES(c) : c \in ColorGradingInputs("App") }

\* C14: a composed prompt carries no color-grading phrase when the style is
\* 'none', and exactly one, the COLOR_GRADING_STYLES entry of the chosen
\* style, otherwise.
C14_ColorGradingPhrase ==
    [][ \A t \in Tasks : Composes(t) =>
          /\ Len(tasks'[t].prompt) >= Len(prompt)
          /\ SubSeq(tasks'[t].prompt, 1, Len(prompt)) = prompt
          /\ colorGrading = "none" => Count(Appended(t), ColorGradingPhrases) = 0
          /\ colorGrading # "none" =>
                /\ Count(Appended(t), ColorGradingPhrases) = 1
                /\ Count(Appended(t), {COLOR_GRADING_STYLES(colorGrading)}) = 1
      ]_vars

C14_Witness ==
    \E t \in Tasks :
        /\ Live(t)
        /\ tasks[t].kind = "generate"
        /\ tasks[t].snap.colorGrading = "cool_noir"
        /\ Count(tasks[t].prompt, {COLOR_GRADING_STYLES("cool_noir")}) = 1


SkinTexturePartOf(v, skin) ==
    IF v = "App" THEN SkinTexturePartApp(skin) ELSE SkinTexturePartPart(skin)
FaceDetailPartOf(v, detail) ==
    IF v = "App" THEN FaceDetailPartApp(detail) ELSE FaceDetailPartPart(detail)
\* the segments the composition of task t put between the skin-texture part
\* and the lighting phrase
DetailQualifier(t) ==
    LET a == Appended(t)
        k == CHOOSE i \in Indices(a) : a[i] = LIGHTING_STYLES(lighting)
    IN  SubSeq(a, Len(SkinTexturePartOf(variant, skinTexture)) + 1, k - 1)
FaceDetailBands == {"highest", "moderate", "soft", "none"}
FaceDetailBand(d) ==
    IF d > 75 THEN "highest"
    ELSE IF d > 50 THEN "moderate"
    ELSE IF d < 25 THEN "soft"
    ELSE "none"
\* one value of each band
BandValue(b) ==
    IF b = "highest" THEN 100 ELSE IF b = "moderate" THEN 75
    ELSE IF b = "soft" THEN 0 ELSE 50

\* C15: the facial-detail qualifier of a composed prompt is chosen by the
\* band of faceDetail alone: a qualifier for values above 75, another for
\* 51..75, another below 25, and none for 25..50.
C15_FaceDetailBands ==
    [][ \A t \in Tasks : Composes(t) =>
          LET q == DetailQualifier(t)
              b == FaceDetailBand(faceDetail)
          IN  /\ \E i \in Indices(Appended(t)) :
                     Appended(t)[i] = LIGHTING_STYLES(lighting)
              /\ (b = "none") <=> (q = <<>>)
              /\ q = FaceDetailPartOf(variant, BandValue(b))
              /\ \A c \in FaceDetailBands \ {b} :
                     q # <<>> => q # FaceDetailPartOf(variant, BandValue(c))
      ]_vars


Range(s) == { s[i] : i \in Indices(s) }
SkinSegments ==
    Range(SkinTexturePartApp(TRUE)) \cup Range(SkinTexturePartPart(TRUE))
DetailSegments ==
    UNION { Range(FaceDetailPartOf(v, BandValue(b))) :
              v \in {"App", "Part"}, b \in FaceDetailBands }
LightingPhrases == { LIGHTING_STYLES(l) : l \in LightingInputs }
QualityPhrases == { QUALITY_MODIFIERS("high") }
\* the place in the documented order of the part a segment belongs to
PartOrder(seg) ==
    IF seg \in SkinSegments THEN 2
    ELSE IF seg \in DetailSegments THEN 3
    ELSE IF seg \in LightingPhrases THEN 4
    ELSE IF seg \in ColorGradingPhrases THEN 5
    ELSE IF seg \in QualityPhrases THEN 6
    ELSE 7
PartsOf(a) == { PartOrder(a[i]) : i \in Indices(a) }
BackgroundApplies ==
    \/ backgroundConfig.type = "custom_color"
    \/ /\ backgroundConfig.type = "preset"
       /\ backgroundConfig.value \in BACKGROUND_PRESETS
ComposedInOrder(t) ==
    LET a == Appended(t)
    IN  /\ Len(tasks'[t].prompt) >= Len(prompt)
        /\ SubSeq(tasks'[t].prompt, 1, Len(prompt)) = prompt
        /\ \A i, j \in Indices(a) : i < j => PartOrder(a[i]) <= PartOrder(a[j])
        /\ (2 \in PartsOf(a)) <=> skinTexture
        /\ Count(a, LightingPhrases) = 1
        /\ Count(a, {LIGHTING_STYLES(lighting)}) = 1
        /\ (5 \in PartsOf(a)) <=> (colorGrading # "none")
        /\ Count(a, QualityPhrases) = 1
        /\ Count(a, {QUALITY_MODIFIERS(quality)}) = 1
        /\ (7 \in PartsOf(a)) <=> BackgroundApplies
        /\ ( /\ skinTexture
             /\ faceDetail = 80
             /\ lighting = "dramatic"
             /\ colorGrading = "teal_orange"
             /\ quality = "high"
             /\ backgroundConfig = [type |-> "preset", value |-> "default"] )
           => /\ PartsOf(a) = 2..6
              /\ a[Len(a) - 2] = LIGHTING_STYLES("dramatic")
              /\ a[Len(a) - 1] = COLOR_GRADING_STYLES("teal_orange")
              /\ a[Len(a)] = QUALITY_MODIFIERS("high")

\* C16: a composed prompt is the base prompt followed by the skin-texture,
\* face-detail, lighting, color-grading, quality and background parts in that
\* order, parts that do not apply left out; with skinTexture on, faceDetail
\* 80, dramatic lighting, teal_orange grading, quality high and the default
\* preset it has the first six parts in that order and no background phrase.
C16_FixedOrder == [][ \A t \in Tasks : Composes(t) => ComposedInOrder(t) ]_vars

C16_Witness ==
    \E t \in Tasks :
        /\ Live(t)
        /\ tasks[t].kind = "generate"
        /\ tasks[t].snap = [skinTexture |-> TRUE, faceDetail |-> 80,
                            lighting |-> "dramatic", colorGrading |-> "teal_orange"]
        /\ backgroundConfig = [type |-> "preset", value |-> "default"]
        /\ tasks[t].prompt[Len(tasks[t].prompt)] = QUALITY_MODIFIERS("high")


\* the last step was the failure of a generation, animation, batch-item or
\* persistence call
FailureOps ==
    {"generate.failed", "chat.failed", "animate.failed", "batch.failed",
     "save.failed", "delete.failed", "clear.failed", "getHistory.failed"}
\* every handler that was started has run to its end
Quiescent == \A u \in Indices(tasks) : tasks[u].pc = "done"
\* nothing is marked in progress and the Generate button takes a click
IdleState ==
    /\ ~status.isLoading
    /\ ~isAnimating
    /\ ~isBatchProcessing
    /\ selectedImage # NULL => GenerateButtonEnabled

\* C18: no failure is fatal.  Whatever its calls return, a handler runs to its
\* end; when the last running handler ends status.isLoading, isAnimating and
\* isBatchProcessing are all false and Generate is accepted; and every failure
\* of a generation, animation, batch-item or persistence call is followed by
\* such an idle state.
C18_NoFailureIsFatal ==
    /\ [][ \A t \in Tasks : (Finishes(t) /\ Quiescent') => IdleState' ]_vars
    /\ (last.op \in FailureOps) ~> (Quiescent /\ IdleState)

C18_Witness ==
    /\ Len(tasks) = MaxTasks
    /\ Quiescent
    /\ IdleState
    /\ last.op = "animate.failed"
    /\ \E k \in Indices(genCalls) : genCalls[k].state = "ok"


\* the status of the queue item id after the step
StatusOfNext(id) ==
    IF \E j \in Indices(batchQueue') : batchQueue'[j].id = id
    THEN batchQueue'[CHOOSE j \in Indices(batchQueue') : batchQueue'[j].id = id].status
    ELSE "absent"
AllowedStatusSteps ==
    { <<"pending", "processing">>, <<"processing", "done">>,
      <<"processing", "error">> }
\* the Generation Client calls issued in this step
IssuedCalls == Indices(genCalls') \ Indices(genCalls)

\* C19: while an item stays in the queue its status changes only from pending
\* to processing and from processing to done or error, so it never leaves
\* done or error; and the item a batch run issues a call for is 'processing'
\* when the call is issued.
C19_StatusTransitions ==
    [][ /\ \A j \in Indices(batchQueue) :
              LET id == batchQueue[j].id
              IN  \/ StatusOfNext(id) \in {"absent", StatusOf(id)}
                  \/ <<StatusOf(id), StatusOfNext(id)>> \in AllowedStatusSteps
        /\ \A k \in IssuedCalls :
              LET t == genCalls'[k].task
              IN  tasks'[t].kind = "batch" =>
                     StatusOfNext(tasks'[t].queue[tasks'[t].i].id)
                        \in {"processing", "absent"}
      ]_vars


\* the number of history items that hold the result of call k
ItemsOfCall(k) ==
    Cardinality({ j \in Indices(history) : history[j].imageUrl = GeneratedImage(k) })

\* C20: when a batch run ends, the history holds one item for each of its
\* calls that succeeded and none for a call that failed, so that a run with k
\* successes has added exactly k items.
C20_BatchAddsOnePerSuccess ==
    \A t \in Tasks :
       BatchJustCompleted(t) =>
          \A k \in Indices(genCalls) :
             genCalls[k].task = t =>
                ItemsOfCall(k) = IF genCalls[k].state = "ok" THEN 1 ELSE 0


\* a generation call succeeds in this step and its item is put in the history
Creates(k) == Succeeds(k) /\ Len(history') = Len(history) + 1
SettingsOf(item) ==
    [skinTexture |-> item.skinTexture, faceDetail |-> item.faceDetail,
     lighting |-> item.lighting, colorGrading |-> item.colorGrading]
\* the prompt the variant composes from the base prompt p and the settings s
ComposedFrom(p, s) ==
    IF variant = "App"
    THEN ComposeApp(p, s.skinTexture, s.faceDetail, s.lighting, s.colorGrading,
                    quality, backgroundConfig)
    ELSE constructPrompt(p, s.skinTexture, s.faceDetail, s.lighting,
                         s.colorGrading, quality, backgroundConfig)

\* C21 as stated: the settings stored in a HistoryItem are the settings
\* active at the moment the item is created.
C21_SettingsAtCreation ==
    [][ \A k \in 1..(MaxTasks * MaxBatch) :
           Creates(k) => SettingsOf(Head(history')) = Snap ]_vars

\* C21 amended: the settings stored in a HistoryItem are the settings active
\* when its generation was submitted, the ones its prompt was composed from,
\* also when the user changes them while the call is outstanding.
C21_SettingsAtSubmission ==
    [][ \A k \in 1..(MaxTasks * MaxBatch) :
           Creates(k) =>
              /\ SettingsOf(Head(history')) = tasks[genCalls[k].task].snap
              /\ tasks[genCalls[k].task].kind \in {"generate", "batch"} =>
                    Head(history').prompt
                       = ComposedFrom(prompt, SettingsOf(Head(history')))
      ]_vars

C21_Witness ==
    /\ history # <<>>
    /\ Head(history).id > 0
    /\ last.op = "generate.ok"
    /\ Head(history).skinTexture # skinTexture


\* the mount effects of the saved prompts run in this step
PresetsMount == ~presetsLoaded /\ presetsLoaded'

\* C22: after startup and after every handleSavePreset / handleDeletePreset
\* the slot holds the serialization of the in-memory list, and the presets
\* the slot held before startup are in memory and in the slot after it.
C22_SlotFollowsList ==
    [][ /\ presetsLoaded' => presetSlot' = Stringify(savedPrompts')
        /\ (PresetsMount /\ presetSlot.kind = "json") =>
              /\ Len(savedPrompts') = Len(presetSlot.entries)
              /\ \A i \in Indices(presetSlot.entries) :
                    <<savedPrompts'[i].id, savedPrompts'[i].name,
                      savedPrompts'[i].text>> = presetSlot.entries[i]
              /\ presetSlot'.kind = "json"
              /\ presetSlot'.entries = presetSlot.entries
      ]_vars

C22_Witness ==
    /\ presetsLoaded
    /\ last.op = "handleDeletePreset"
    /\ Len(savedPrompts) = 2
    /\ savedPrompts[1] = OldPreset(1)
    /\ savedPrompts[2].name = "warm"
    /\ presetSlot.entries[2][2] = "warm"


\* handleChatEdit starts task t in this step
ChatStarts(t) == Starts(t) /\ tasks'[t].kind = "chat"
\* the call that the step issued
IssuedCall == genCalls'[Len(genCalls')]
BackgroundPhrases ==
    { PresetPrompt(id) : id \in BACKGROUND_PRESETS }
       \cup { "solid #00ff00 color background" }
FullOnlyPhrases ==
    SkinSegments \cup DetailSegments \cup ColorGradingPhrases
       \cup BackgroundPhrases

\* C23: handleChatEdit submits the chat text followed by the quality phrase
\* and the lighting phrase and nothing else, with resultImage as source when
\* there is one and selectedImage otherwise; when the call succeeds
\* resultImage is its result and one HistoryItem with that prompt is added.
C23_ChatEditPath ==
    [][ /\ \A t \in Tasks :
              ChatStarts(t) =>
                 /\ Len(genCalls') = Len(genCalls) + 1
                 /\ IssuedCall.task = t
                 /\ Len(IssuedCall.prompt) = Len(tasks'[t].arg) + 2
                 /\ SubSeq(IssuedCall.prompt, 1, Len(tasks'[t].arg)) = tasks'[t].arg
                 /\ Count(IssuedCall.prompt, {QUALITY_MODIFIERS(quality)}) = 1
                 /\ Count(IssuedCall.prompt, {LIGHTING_STYLES(lighting)}) = 1
                 /\ Count(IssuedCall.prompt, FullOnlyPhrases) = 0
                 /\ IssuedCall.image =
                       IF resultImage # NULL THEN resultImage ELSE selectedImage
                 /\ IssuedCall.image # NULL
        /\ \A k \in 1..(MaxTasks * MaxBatch) :
              (Succeeds(k) /\ tasks[genCalls[k].task].kind = "chat") =>
                 /\ resultImage' = GeneratedImage(k)
                 /\ Len(history') = Len(history) + 1
                 /\ Tail(history') = history
                 /\ Head(history').prompt = genCalls[k].prompt
                 /\ Head(history').imageUrl = GeneratedImage(k)
      ]_vars

C23_Witness ==
    \E k \in Indices(genCalls) :
        /\ last.op = "chat.ok"
        /\ genCalls[k].task = last.task
        /\ genCalls[k].image = selectedImage
        /\ selectedImage # NULL
        /\ resultImage = GeneratedImage(k)
        /\ Head(history).prompt = genCalls[k].prompt


\* C24: an image selection replaces the batch queue: several images give one
\* pending item without result per image, in selection order; a single image
\* or an empty selection gives the empty queue; no item of the previous
\* queue is in the new one.
C24_QueueReplaced ==
    [][ /\ \A b \in BatchInputs :
              HandleImageSelectedPart(b, TRUE) =>
                 /\ Len(batchQueue') = Len(b)
                 /\ \A i \in Indices(b) :
                       /\ batchQueue'[i].original = b[i]
                       /\ batchQueue'[i].status = "pending"
                       /\ batchQueue'[i].result = NULL
                 /\ Cardinality(IdsOf(batchQueue')) = Len(b)
                 /\ IdsOf(batchQueue') \cap IdsOf(batchQueue) = {}
        /\ \A b \in SingleInputs :
              HandleImageSelectedPart(b, FALSE) => batchQueue' = <<>>
      ]_vars

C24_Witness ==
    /\ last.op = "handleImageSelected"
    /\ Len(batchQueue) = 2
    /\ \A i \in Indices(batchQueue) : batchQueue[i].status = "pending"
    /\ \E t \in Tasks :
          /\ Live(t)
          /\ tasks[t].kind = "batch"
          /\ tasks[t].pc = "done"
          /\ Len(tasks[t].queue) = MaxBatch


\* an Animation Client call has been issued and has not settled
AnimationOutstanding ==
    \E t \in Indices(tasks) : tasks[t].pc = "awaitAnim"

\* C25: in App.tsx status.isLoading is true in every state in which a
\* Generation Client or Animation Client call is outstanding.
C25_LoadingWhileOutstanding ==
    variant = "App" =>
       ((Outstanding # {} \/ AnimationOutstanding) => status.isLoading)


\* C26: right after handleImageSelected resultImage is null, and a call that
\* was issued before the selection (every call there is when the selection
\* is the last thing that happened) does not set resultImage when it
\* succeeds.
C26_NoStaleResult ==
    [][ last.op = "handleImageSelected" =>
           /\ resultImage = NULL
           /\ \A k \in Indices(genCalls) : Succeeds(k) => resultImage' = NULL
      ]_vars


\* handleDeleteHistoryItem or handleClearHistory changes the history in this step
RemovesItems ==
    \E t \in Tasks : Finishes(t) /\ tasks[t].kind \in {"delete", "clear"}

\* C27: an item that a successful generation of this session put in the
\* in-memory history is still there after every step that is not a delete or
\* a clear, the step in which the startup getHistory() load resolves included.
C27_ItemsStay ==
    [][ \A i \in Indices(history) :
           history[i].id > 0 =>
              \/ \E j \in Indices(history') : history'[j] = history[i]
              \/ RemovesItems
      ]_vars


\* C28: in App.tsx the video view is never shown without a video:
\* activeTab = 'video' implies videoResult is not null.
C28_VideoTabHasVideo ==
    variant = "App" => (activeTab = "video" => videoResult # NULL)

C28_Witness ==
    /\ variant = "App"
    /\ activeTab = "video"
    /\ videoResult # NULL
    /\ resultImage = NULL
    /\ last.op = "animate.ok"


\* C29: in App.tsx a video that is held was made from the image that
\* resultImage holds now.
C29_VideoOfResultImage ==
    variant = "App" => (videoResult # NULL => videoResult = VideoOf(resultImage))


\* the item is the one handleGenerate made from the base prompt p
MadeFrom(item, p) ==
    /\ item.id > 0
    /\ item.prompt = ComposedFrom(p, SettingsOf(item))

\* C30: restoreHistoryItem on an item that handleGenerate made from the base
\* prompt p sets prompt back to p and aspectRatio, skinTexture, faceDetail,
\* lighting and colorGrading back to the values the item records, for every
\* base prompt, prompts with commas included.
C30_RoundTrip ==
    [][ \A i \in Indices(history), p \in PromptInputs :
           (restoreHistoryItem(history[i]) /\ MadeFrom(history[i], p)) =>
              /\ prompt' = p
              /\ aspectRatio' = history[i].aspectRatio
              /\ Snap' = SettingsOf(history[i])
      ]_vars

====
